---- MODULE Spec2Model ----
(***************************************************************************)
(* State-machine model of the Clerk user migration utility (src/index.ts,  *)
(* lines 1-174): environment-driven startup guards, the record merger,     *)
(* the schema validator and the sequential, rate-limited migration driver; *)
(* and of the companion cleanup utility (lines 176-228).                   *)
(***************************************************************************)
EXTENDS Integers, Sequences, FiniteSets, TLC

\* ------------------------------------------------------------------------
\* Bounds of the model
\* ------------------------------------------------------------------------
\* longest users.json array explored
MaxUsers == 2
\* longest users-phone-numbers.json array explored
MaxPhones == 1
\* most 429 answers the sink gives to one record
Max429 == 1

\* ------------------------------------------------------------------------
\* JavaScript values.  Every value is a record tagged with its type; a
\* number carries its canonical decimal text, an object its own fields.
\* ------------------------------------------------------------------------
Undef == [t |-> "undefined"]
Null == [t |-> "null"]
Str(s) == [t |-> "string", v |-> s]
Num(s) == [t |-> "number", v |-> s]
Bool(b) == [t |-> "boolean", v |-> IF b THEN "true" ELSE "false"]
Arr(items) == [t |-> "array", items |-> items]
Obj(fields) == [t |-> "object", f |-> fields]

\* property read o.k on an object value (undefined when the key is absent)
Get(o, k) == IF k \in DOMAIN o.f THEN o.f[k] ELSE Undef

\* ToBoolean
Truthy(x) ==
  CASE x.t = "undefined" -> FALSE
    [] x.t = "null" -> FALSE
    [] x.t = "string" -> x.v # ""
    [] x.t = "number" -> x.v \notin {"0", "NaN"}
    [] x.t = "boolean" -> x.v = "true"
    [] OTHER -> TRUE

\* String(x) for the primitives a phone field can hold
String(x) ==
  CASE x.t = "string" -> x
    [] x.t = "number" -> Str(x.v)
    [] x.t = "boolean" -> Str(x.v)
    [] OTHER -> Str(x.t)

\* ------------------------------------------------------------------------
\* Environment variables.  A variable is unset or holds a string; the
\* strings that the program splits or parses are sequences of characters.
\* ------------------------------------------------------------------------
Unset == [set |-> FALSE]
Val(s) == [set |-> TRUE, s |-> s]

\* a ?? b on an environment variable
Coalesce(x, d) == IF x.set THEN x.s ELSE d

NaN == [nan |-> TRUE]
Finite(n) == [nan |-> FALSE, n |-> n]

DigitChars == <<"0", "1", "2", "3", "4", "5", "6", "7", "8", "9">>
IsDigit(c) == \E d \in 1..10 : DigitChars[d] = c
DigitVal(c) == (CHOOSE d \in 1..10 : DigitChars[d] = c) - 1

RECURSIVE ParseDigits(_, _, _)
ParseDigits(s, k, acc) ==
  IF k > Len(s) \/ ~IsDigit(s[k]) THEN acc
  ELSE ParseDigits(s, k + 1, acc * 10 + DigitVal(s[k]))

\* parseInt(s): optional sign, then the longest prefix of decimal digits;
\* NaN when there is no digit.  Parsing stops at the first other character.
parseInt(s) ==
  LET signed == Len(s) > 0 /\ s[1] \in {"-", "+"}
      start == IF signed THEN 2 ELSE 1
      mag == ParseDigits(s, start, 0)
  IN IF start > Len(s) \/ ~IsDigit(s[start]) THEN NaN
     ELSE IF signed /\ s[1] = "-" THEN Finite(0 - mag) ELSE Finite(mag)

RECURSIVE SplitFrom(_, _, _, _)
SplitFrom(s, sep, k, cur) ==
  IF k > Len(s) THEN <<cur>>
  ELSE IF s[k] = sep THEN <<cur>> \o SplitFrom(s, sep, k + 1, <<>>)
  ELSE SplitFrom(s, sep, k + 1, Append(cur, s[k]))

\* s.split(sep)
split(s, sep) == SplitFrom(s, sep, 1, <<>>)

\* a[i] with a JavaScript (0-based) index, unset when out of range
At(a, i) == IF i + 1 \in 1..Len(a) THEN Val(a[i + 1]) ELSE Unset

\* the slice taken one element late
sliceOffByOne(list, start) ==
  LET n == Len(list)
      rel == IF start.nan THEN 0 ELSE start.n
      from == IF rel < 0 THEN (IF n + rel < 0 THEN 0 ELSE n + rel)
              ELSE (IF rel > n THEN n ELSE rel)
  IN SubSeq(list, from + 2, n)

\* list.slice(start)
slice(list, start) ==
  LET n == Len(list)
      rel == IF start.nan THEN 0 ELSE start.n
      from == IF rel < 0 THEN (IF n + rel < 0 THEN 0 ELSE n + rel)
              ELSE (IF rel > n THEN n ELSE rel)
  IN SubSeq(list, from + 1, n)

HashingAlgorithms ==
  {"argon2i", "argon2id", "bcrypt", "md5", "pbkdf2_sha256",
   "pbkdf2_sha256_django", "pbkdf2_sha1", "scrypt_firebase"}

KeyLive == <<"s", "k", "_", "l", "i", "v", "e", "_", "A">>
KeyTest == <<"s", "k", "_", "t", "e", "s", "t", "_", "A">>
KeyLiveFirst == <<"l", "i", "v", "e", "_", "A">>
KeyEmpty == <<>>
LiveSegment == <<"l", "i", "v", "e">>

\* the values explored for each setting
EnvKeys == {Unset, Val(KeyEmpty), Val(KeyLive), Val(KeyTest), Val(KeyLiveFirst)}
EnvImports == {Unset, Val("false"), Val("true"), Val("yes")}
EnvOffsets == {Unset, Val(<<"1">>), Val(<<"2">>), Val(<<"-", "1">>), Val(<<"x">>)}

\* every combination of the settings the startup guards read, resuming at
\* the third record
EnvsStartup ==
  [CLERK_SECRET_KEY : EnvKeys, DELAY_MS : {Unset}, RETRY_DELAY_MS : {Unset},
   IMPORT_TO_DEV_INSTANCE : EnvImports, OFFSET : {Val(<<"2">>)},
   PASSWORD_HASHER : {Unset, Val("sha512")}]

\* a production key with each offset, and with every driver setting given
EnvsDriver ==
  [CLERK_SECRET_KEY : {Val(KeyLive)}, DELAY_MS : {Unset},
   RETRY_DELAY_MS : {Unset}, IMPORT_TO_DEV_INSTANCE : {Unset},
   OFFSET : EnvOffsets, PASSWORD_HASHER : {Unset}]
    \cup
  {[CLERK_SECRET_KEY |-> Val(KeyLive), DELAY_MS |-> Val(<<"2", "5", "0">>),
    RETRY_DELAY_MS |-> Val(<<"5", "0", "0">>),
    IMPORT_TO_DEV_INSTANCE |-> Unset, OFFSET |-> Val(<<"1">>),
    PASSWORD_HASHER |-> Val("md5")]}

Envs == EnvsStartup \cup EnvsDriver

VARIABLES
  env,            \* process.env after dotenv's config()
  pc,             \* where the program is
  bootError,      \* the error thrown by the top-level code, "" when none
  parsedUsersWithPhoneNumbers,  \* the merged list built by main
  offsetUsers,    \* the slice main iterates over
  i,              \* main's loop counter
  migrated,
  alreadyExists,
  auditLog,       \* the payloads appended to migration-log-<now>.json
  pending,        \* the create request awaiting the sink's answer
  rateLimited,    \* 429 answers the current record has received
  console,        \* the final summary lines printed
  trace,          \* history of the observable steps of the run
  \* the cleanup utility
  cleanupPc,      \* where the cleanup program is
  clerkUsers,     \* the list getUserList returned
  cleanupIndex,   \* users of the list the loop has taken
  usersDeleted,
  cleanupLog,     \* the payloads appended to cleanup-log-<now>.json
  cleanupTrace,   \* history of the calls made to the sink
  \* a sink that remembers the users it created, across two runs
  sinkUsers,      \* the external ids the sink holds
  dataset,        \* the two input files both runs read
  previousRun,    \* what the first run ended with, None during it
  \* the record pipeline on its own: merge, validate, build the request
  mergeInput,     \* the primary and the auxiliary list
  mergeOutput,    \* the merged list, None before the merge
  requests        \* per merged record, the create request or its refusal

\* the variables of the migration run
migrationVars ==
  <<env, pc, bootError, parsedUsersWithPhoneNumbers, offsetUsers, i,
    migrated, alreadyExists, auditLog, pending, rateLimited, console, trace>>

cleanupVars ==
  <<cleanupPc, clerkUsers, cleanupIndex, usersDeleted, cleanupLog, cleanupTrace>>

rerunVars == <<sinkUsers, dataset, previousRun>>

pipelineVars == <<mergeInput, mergeOutput, requests>>

vars == <<migrationVars, cleanupVars, rerunVars, pipelineVars>>

\* ------------------------------------------------------------------------
\* Top-level configuration (lines 22-29)
\* ------------------------------------------------------------------------
SECRET_KEY == env.CLERK_SECRET_KEY
DELAY == parseInt(Coalesce(env.DELAY_MS, <<"1", "_", "0", "0", "0">>))
RETRY_DELAY ==
  parseInt(Coalesce(env.RETRY_DELAY_MS, <<"1", "0", "_", "0", "0", "0">>))
IMPORT_TO_DEV == Coalesce(env.IMPORT_TO_DEV_INSTANCE, "false")
OFFSET == parseInt(Coalesce(env.OFFSET, <<"0">>))
PASSWORD_HASHER == Coalesce(env.PASSWORD_HASHER, "bcrypt")

\* a configuration taking any string as the hasher identifier
hasherSchemaUnchecked == TRUE

\* hasherSchema.parse succeeds
hasherSchema == PASSWORD_HASHER \in HashingAlgorithms

\* !SECRET_KEY
SecretKeyMissing == ~SECRET_KEY.set \/ SECRET_KEY.s = <<>>

\* SECRET_KEY.split("_")[1] === "live"
IsLiveKey == At(split(SECRET_KEY.s, "_"), 1) = Val(LiveSegment)

\* the guard comparing the first segment of the key
DevInstanceGuardFirstSegment ==
  At(split(SECRET_KEY.s, "_"), 0) # Val(LiveSegment) /\ IMPORT_TO_DEV = "false"

\* the guard of line 37
DevInstanceGuard == ~IsLiveKey /\ IMPORT_TO_DEV = "false"

\* ------------------------------------------------------------------------
\* Input files: the records users.json and users-phone-numbers.json hold
\* ------------------------------------------------------------------------
ValidEmails == {"a@x.io", "b@x.io"}

UserWithPassword ==
  Obj([userId |-> Str("u1"), email |-> Str("a@x.io"), password |-> Str("h1")])
UserNoPassword == Obj([userId |-> Str("u2"), email |-> Str("b@x.io")])
UserNoId == Obj([email |-> Str("a@x.io")])
UserNumericId == Obj([userId |-> Num("7"), email |-> Str("a@x.io")])
UserBadEmail == Obj([userId |-> Str("u3"), email |-> Str("nope")])
UserNoEmail == Obj([userId |-> Str("u4")])
UserBadName ==
  Obj([userId |-> Str("u5"), email |-> Str("b@x.io"), firstName |-> Num("1")])

UserRecords ==
  {UserWithPassword, UserNoPassword, UserNoId, UserNumericId, UserBadEmail,
   UserNoEmail, UserBadName, Null}

PhoneRecords ==
  {Obj([id |-> Str("u1"), phone |-> Num("5551234")]),
   Obj([id |-> Str("u2"), phone |-> Num("0")]),
   Obj([id |-> Str("u3"), phone |-> Str("07700")])}

SeqsUpTo(S, n) == UNION {[1..k -> S] : k \in 0..n}

UserFiles == SeqsUpTo(UserRecords, MaxUsers)
PhoneFiles == SeqsUpTo(PhoneRecords, MaxPhones)

\* ------------------------------------------------------------------------
\* Validator (lines 43-50)
\* ------------------------------------------------------------------------
SchemaKeys ==
  <<"userId", "email", "firstName", "lastName", "password", "phoneNumber">>

IsString(x) == x.t = "string"
IsEmail(x) == IsString(x) /\ x.v \in ValidEmails
OptionalString(x) == x.t = "undefined" \/ IsString(x)
OptionalStringArray(x) ==
  x.t = "undefined"
    \/ (x.t = "array" /\ \A k \in 1..Len(x.items) : IsString(x.items[k]))

\* the email key declared as a plain string
FieldOkPlainEmail(k, x) ==
  CASE k = "userId" -> IsString(x)
    [] k = "email" -> IsString(x)
    [] k = "phoneNumber" -> OptionalStringArray(x)
    [] OTHER -> OptionalString(x)

\* the schema of one key accepts the value x
FieldOk(k, x) ==
  CASE k = "userId" -> IsString(x)
    [] k = "email" -> IsEmail(x)
    [] k = "phoneNumber" -> OptionalStringArray(x)
    [] OTHER -> OptionalString(x)

\* userSchema.safeParse(x): success and the stripped data, or a ZodError
\* whose issues name the offending keys
userSchema(x) ==
  IF x.t # "object"
  THEN [success |-> FALSE,
        error |-> Obj([name |-> Str("ZodError"), issues |-> Arr(<<Str("")>>)])]
  ELSE LET bad == SelectSeq(SchemaKeys, LAMBDA k : ~FieldOk(k, Get(x, k)))
           keep == {SchemaKeys[k] : k \in 1..Len(SchemaKeys)} \cap DOMAIN x.f
       IN IF bad = <<>>
          THEN [success |-> TRUE, data |-> Obj([k \in keep |-> x.f[k]])]
          ELSE [success |-> FALSE,
                error |-> Obj([name |-> Str("ZodError"),
                               issues |-> Arr([k \in 1..Len(bad) |-> Str(bad[k])])])]

\* ------------------------------------------------------------------------
\* Record merger (lines 136-149)
\* ------------------------------------------------------------------------
\* a lookup returning the last auxiliary record with the id
findLast(phones, user) ==
  LET hits == {k \in 1..Len(phones) : Get(phones[k], "id") = Get(user, "userId")}
  IN IF hits = {} THEN Undef
     ELSE phones[CHOOSE k \in hits : \A j \in hits : k >= j]

\* parsedUserPhoneNumbers.find(p => p.id === user.userId)
find(phones, user) ==
  LET hits == {k \in 1..Len(phones) : Get(phones[k], "id") = Get(user, "userId")}
  IN IF hits = {} THEN Undef
     ELSE phones[CHOOSE k \in hits : \A j \in hits : k <= j]

\* the callback of parsedUserData.map
mergeUser(user, phones) ==
  LET userWithPhoneNumber == find(phones, user)
  IN IF userWithPhoneNumber.t = "undefined"
        \/ ~Truthy(Get(userWithPhoneNumber, "phone"))
     THEN user
     ELSE Obj([k \in DOMAIN user.f \cup {"phoneNumber"} |->
                 IF k = "phoneNumber"
                 THEN Arr(<<String(Get(userWithPhoneNumber, "phone"))>>)
                 ELSE user.f[k]])

\* reading user.userId throws a TypeError on a null element
MergeThrows(users) == \E k \in 1..Len(users) : users[k].t = "null"

mergeUsers(users, phones) == [k \in 1..Len(users) |-> mergeUser(users[k], phones)]

\* ------------------------------------------------------------------------
\* Remote User Sink: the answers clerkClient.users.createUser can give
\* ------------------------------------------------------------------------
Created == [ok |-> TRUE]
Rejected(error) == [ok |-> FALSE, error |-> error]
ClerkError(status) == Obj([clerkError |-> Bool(TRUE), status |-> Num(status)])
NetworkError == Obj([code |-> Str("ECONNRESET")])

SinkErrors == {ClerkError("422"), ClerkError("429"), ClerkError("500"), NetworkError}
SinkAnswers == {Created} \cup {Rejected(e) : e \in SinkErrors}

\* a createUser sending the phone number in both forms
createUserPhoneAlways(userData) ==
  IF Truthy(Get(userData, "password"))
  THEN [externalId |-> Get(userData, "userId"),
        emailAddress |-> Arr(<<Get(userData, "email")>>),
        firstName |-> Get(userData, "firstName"),
        lastName |-> Get(userData, "lastName"),
        phoneNumber |-> Get(userData, "phoneNumber"),
        passwordDigest |-> Get(userData, "password"),
        passwordHasher |-> Str(PASSWORD_HASHER)]
  ELSE [externalId |-> Get(userData, "userId"),
        emailAddress |-> Arr(<<Get(userData, "email")>>),
        firstName |-> Get(userData, "firstName"),
        lastName |-> Get(userData, "lastName"),
        phoneNumber |-> Get(userData, "phoneNumber"),
        skipPasswordRequirement |-> Bool(TRUE)]

\* the request createUser sends for a validated record (lines 54-71)
createUser(userData) ==
  IF Truthy(Get(userData, "password"))
  THEN [externalId |-> Get(userData, "userId"),
        emailAddress |-> Arr(<<Get(userData, "email")>>),
        firstName |-> Get(userData, "firstName"),
        lastName |-> Get(userData, "lastName"),
        phoneNumber |-> Get(userData, "phoneNumber"),
        passwordDigest |-> Get(userData, "password"),
        passwordHasher |-> Str(PASSWORD_HASHER)]
  ELSE [externalId |-> Get(userData, "userId"),
        emailAddress |-> Arr(<<Get(userData, "email")>>),
        firstName |-> Get(userData, "firstName"),
        lastName |-> Get(userData, "lastName"),
        skipPasswordRequirement |-> Bool(TRUE)]

\* ------------------------------------------------------------------------
\* Audit log (lines 73-79)
\* ------------------------------------------------------------------------
\* { userId: userData.userId, ...error }
LogPayload(userData, error) ==
  [k \in {"userId"} \cup DOMAIN error.f |->
     IF k \in DOMAIN error.f THEN error.f[k] ELSE Get(userData, "userId")]

\* JSON.stringify(payload): keys whose value is undefined are left out
stringify(payload) ==
  [k \in {j \in DOMAIN payload : payload[j].t # "undefined"} |-> payload[k]]

\* an appendLog writing the file anew
appendLogOverwrite(payload) == auditLog' = <<stringify(payload)>>

\* appendLog(payload): one more entry at the end of the log file
appendLog(payload) == auditLog' = Append(auditLog, stringify(payload))

\* one observable step of the run
Ev(kind, idx, data) == [e |-> kind, idx |-> idx, d |-> data]

None == [none |-> TRUE]

\* the parts of the state a run of the migration tool alone leaves untouched
IdleCleanup ==
  /\ cleanupPc = "idle"
  /\ clerkUsers = <<>>
  /\ cleanupIndex = 0
  /\ usersDeleted = 0
  /\ cleanupLog = <<>>
  /\ cleanupTrace = <<>>

IdleRerun ==
  /\ sinkUsers = {}
  /\ dataset = None
  /\ previousRun = None

IdlePipeline ==
  /\ mergeInput = None
  /\ mergeOutput = None
  /\ requests = None

\* the state of the migration process when it starts
InitMigration ==
  /\ pc = "boot"
  /\ bootError = ""
  /\ parsedUsersWithPhoneNumbers = <<>>
  /\ offsetUsers = <<>>
  /\ i = 0
  /\ migrated = 0
  /\ alreadyExists = 0
  /\ auditLog = <<>>
  /\ pending = None
  /\ rateLimited = 0
  /\ console = <<>>
  /\ trace = <<>>

\* ------------------------------------------------------------------------
\* The program
\* ------------------------------------------------------------------------
Init ==
  /\ env \in Envs
  /\ InitMigration
  /\ IdleCleanup
  /\ IdleRerun
  /\ IdlePipeline

\* Top-level code of the module (lines 22-41): the configuration is parsed
\* and the two startup guards run; a throw ends the process.
Boot ==
  /\ pc = "boot"
  /\ bootError' = IF ~hasherSchema THEN "ZodError"
                  ELSE IF SecretKeyMissing THEN "CLERK_SECRET_KEY is required"
                  ELSE IF DevInstanceGuard THEN "development instance"
                  ELSE ""
  /\ pc' = IF bootError' = "" THEN "main" ELSE "failed"
  /\ UNCHANGED <<env, parsedUsersWithPhoneNumbers, offsetUsers, i, migrated,
                 alreadyExists, auditLog, pending, rateLimited, console, trace>>
  /\ UNCHANGED <<cleanupVars, rerunVars, pipelineVars>>

\* main up to its loop (lines 121-157): both input files are read and
\* parsed, the records are merged and the offset slice is taken.
main(users, phones) ==
  /\ trace' = trace \o <<Ev("readFile", 0, [file |-> "users.json"]),
                         Ev("readFile", 0, [file |-> "users-phone-numbers.json"])>>
  /\ IF MergeThrows(users)
     THEN /\ pc' = "rejected"
          /\ UNCHANGED <<parsedUsersWithPhoneNumbers, offsetUsers>>
     ELSE /\ pc' = "loop"
          /\ parsedUsersWithPhoneNumbers' = mergeUsers(users, phones)
          /\ offsetUsers' = slice(parsedUsersWithPhoneNumbers', OFFSET)
  /\ i' = 0
  /\ UNCHANGED <<env, bootError, migrated, alreadyExists, auditLog, pending,
                 rateLimited, console>>

\* main started on whatever the two input files hold
MainLoad ==
  /\ pc = "main"
  /\ \E users \in UserFiles, phones \in PhoneFiles : main(users, phones)
  /\ UNCHANGED <<cleanupVars, rerunVars, pipelineVars>>

\* the conflict test comparing against the string "422"
IsConflictString(error) == Get(error, "status") = Str("422")

\* the conflict test looking for status 409
IsConflict409(error) == Get(error, "status") = Num("409")

\* error.status === 422 (line 95)
IsConflict(error) == Get(error, "status") = Num("422")

\* the rate-limit test comparing against the string "429"
IsRateLimitString(error) == Get(error, "status") = Str("429")

\* the rate-limit test taking every status from 429 up
IsRateLimitOrAbove(error) == Get(error, "status") \in {Num("429"), Num("500")}

\* error.status === 429 (line 102)
IsRateLimit(error) == Get(error, "status") = Num("429")

\* a catch block that gives a rate-limited record up after two retries
catchErrorCapped(userData, idx, error, tr) ==
  IF IsConflict(error)
  THEN /\ appendLog(LogPayload(userData, error))
       /\ alreadyExists' = alreadyExists + 1
       /\ pc' = "loop"
       /\ trace' = tr \o <<Ev("appendLog", idx, stringify(LogPayload(userData, error))),
                           Ev("done", idx, [outcome |-> "alreadyExists"])>>
       /\ UNCHANGED migrated
  ELSE IF IsRateLimit(error) /\ rateLimited < 2
  THEN /\ pc' = "rateLimitCooldown"
       /\ trace' = Append(tr, Ev("rateLimitCooldown", idx, RETRY_DELAY))
       /\ UNCHANGED <<migrated, alreadyExists, auditLog>>
  ELSE /\ appendLog(LogPayload(userData, error))
       /\ pc' = "loop"
       /\ trace' = tr \o <<Ev("appendLog", idx, stringify(LogPayload(userData, error))),
                           Ev("done", idx, [outcome |-> "failed"])>>
       /\ UNCHANGED <<migrated, alreadyExists>>

\* the catch block rethrowing what it does not recognise
catchErrorRethrow(userData, idx, error, tr) ==
  IF IsConflict(error)
  THEN /\ appendLog(LogPayload(userData, error))
       /\ alreadyExists' = alreadyExists + 1
       /\ pc' = "loop"
       /\ trace' = tr \o <<Ev("appendLog", idx, stringify(LogPayload(userData, error))),
                           Ev("done", idx, [outcome |-> "alreadyExists"])>>
       /\ UNCHANGED migrated
  ELSE IF IsRateLimit(error)
  THEN /\ pc' = "rateLimitCooldown"
       /\ trace' = Append(tr, Ev("rateLimitCooldown", idx, RETRY_DELAY))
       /\ UNCHANGED <<migrated, alreadyExists, auditLog>>
  ELSE /\ pc' = "rejected"
       /\ trace' = tr
       /\ UNCHANGED <<migrated, alreadyExists, auditLog>>

\* the catch block of processUserToClerk (lines 94-110); tr is the history
\* up to the throw
catchError(userData, idx, error, tr) ==
  IF IsConflict(error)
  THEN /\ appendLog(LogPayload(userData, error))
       /\ alreadyExists' = alreadyExists + 1
       /\ pc' = "loop"
       /\ trace' = tr \o <<Ev("appendLog", idx, stringify(LogPayload(userData, error))),
                           Ev("done", idx, [outcome |-> "alreadyExists"])>>
       /\ UNCHANGED migrated
  ELSE IF IsRateLimit(error)
  THEN /\ pc' = "rateLimitCooldown"
       /\ trace' = Append(tr, Ev("rateLimitCooldown", idx, RETRY_DELAY))
       /\ UNCHANGED <<migrated, alreadyExists, auditLog>>
  ELSE /\ appendLog(LogPayload(userData, error))
       /\ pc' = "loop"
       /\ trace' = tr \o <<Ev("appendLog", idx, stringify(LogPayload(userData, error))),
                           Ev("done", idx, [outcome |-> "failed"])>>
       /\ UNCHANGED <<migrated, alreadyExists>>

\* processUserToClerk whose create call is not awaited
processUserToClerkNoAwait(userData, idx) ==
  LET parsedUserData == userSchema(userData)
  IN IF ~parsedUserData.success
     THEN /\ catchError(userData, idx, parsedUserData.error, trace)
          /\ pending' = None
     ELSE /\ pending' = createUser(parsedUserData.data)
          /\ pc' = "loop"
          /\ migrated' = migrated + 1
          /\ trace' = Append(trace, Ev("createUser", idx, pending'))
          /\ UNCHANGED <<alreadyExists, auditLog>>

\* processUserToClerk from its entry to the await of createUser
\* (lines 84-91): the record is validated, then the create call is issued.
processUserToClerk(userData, idx) ==
  LET parsedUserData == userSchema(userData)
  IN IF ~parsedUserData.success
     THEN /\ catchError(userData, idx, parsedUserData.error, trace)
          /\ pending' = None
     ELSE /\ pending' = createUser(parsedUserData.data)
          /\ pc' = "awaitCreate"
          /\ trace' = Append(trace, Ev("createUser", idx, pending'))
          /\ UNCHANGED <<migrated, alreadyExists, auditLog>>

\* the retry routed back through the loop's pacing delay
rateLimitCooldownRepaced ==
  /\ pc = "rateLimitCooldown"
  /\ pc' = "cooldown"
  /\ i' = i - 1
  /\ trace' = Append(trace, Ev("cooldown", i,
                                [ms |-> DELAY, userData |-> offsetUsers[i]]))
  /\ UNCHANGED <<env, bootError, parsedUsersWithPhoneNumbers, offsetUsers,
                 migrated, alreadyExists, auditLog, pending, rateLimited,
                 console>>
  /\ UNCHANGED <<cleanupVars, rerunVars, pipelineVars>>

\* rateLimitCooldown ends (lines 105-106): the same record is processed again
rateLimitCooldown ==
  /\ pc = "rateLimitCooldown"
  /\ processUserToClerk(offsetUsers[i], i)
  /\ UNCHANGED <<env, bootError, parsedUsersWithPhoneNumbers, offsetUsers, i,
                 rateLimited, console>>
  /\ UNCHANGED <<cleanupVars, rerunVars, pipelineVars>>

\* the loop takes the next record and starts the pacing delay (159-161)
LoopNext ==
  /\ pc = "loop"
  /\ i < Len(offsetUsers)
  /\ pc' = "cooldown"
  /\ trace' = Append(trace, Ev("cooldown", i + 1,
                                [ms |-> DELAY, userData |-> offsetUsers[i + 1]]))
  /\ UNCHANGED <<env, bootError, parsedUsersWithPhoneNumbers, offsetUsers, i,
                 migrated, alreadyExists, auditLog, pending, rateLimited,
                 console>>
  /\ UNCHANGED <<cleanupVars, rerunVars, pipelineVars>>

\* cooldown ends (lines 162-164): the counter advances and the record is
\* handed to processUserToClerk
cooldown ==
  /\ pc = "cooldown"
  /\ i' = i + 1
  /\ rateLimited' = 0
  /\ processUserToClerk(offsetUsers[i'], i')
  /\ UNCHANGED <<env, bootError, parsedUsersWithPhoneNumbers, offsetUsers,
                 console>>
  /\ UNCHANGED <<cleanupVars, rerunVars, pipelineVars>>

\* the sink answers the pending create call (lines 91-110)
settle(answer) ==
  /\ rateLimited' = IF answer = Rejected(ClerkError("429"))
                    THEN rateLimited + 1 ELSE rateLimited
  /\ IF answer.ok
     THEN /\ migrated' = migrated + 1
          /\ pc' = "loop"
          /\ trace' = trace \o <<Ev("answer", i, answer),
                                 Ev("done", i, [outcome |-> "migrated"])>>
          /\ UNCHANGED <<alreadyExists, auditLog>>
     ELSE catchError(offsetUsers[i], i, answer.error,
                     Append(trace, Ev("answer", i, answer)))
  /\ pending' = None
  /\ UNCHANGED <<env, bootError, parsedUsersWithPhoneNumbers, offsetUsers, i,
                 console>>

\* a sink free to give any answer, and at most Max429 times a 429 to one
\* record
CreateSettled ==
  /\ pc = "awaitCreate"
  /\ \E answer \in SinkAnswers :
       /\ answer = Rejected(ClerkError("429")) => rateLimited < Max429
       /\ settle(answer)
  /\ UNCHANGED <<cleanupVars, rerunVars, pipelineVars>>

\* the loop is exhausted and main returns (lines 165-168)
MainReturn ==
  /\ pc = "loop"
  /\ i = Len(offsetUsers)
  /\ pc' = "resolved"
  /\ UNCHANGED <<env, bootError, parsedUsersWithPhoneNumbers, offsetUsers, i,
                 migrated, alreadyExists, auditLog, pending, rateLimited,
                 console, trace>>
  /\ UNCHANGED <<cleanupVars, rerunVars, pipelineVars>>

\* the continuation of main() prints the summary (lines 171-174)
Summary ==
  /\ pc = "resolved"
  /\ console' = <<<<migrated, "users migrated">>,
                  <<alreadyExists, "users failed to upload">>>>
  /\ pc' = "done"
  /\ UNCHANGED <<env, bootError, parsedUsersWithPhoneNumbers, offsetUsers, i,
                 migrated, alreadyExists, auditLog, pending, rateLimited, trace>>
  /\ UNCHANGED <<cleanupVars, rerunVars, pipelineVars>>

Next ==
  \/ Boot
  \/ MainLoad
  \/ LoopNext
  \/ cooldown
  \/ CreateSettled
  \/ rateLimitCooldown
  \/ MainReturn
  \/ Summary

Spec == Init /\ [][Next]_vars

\* The same program started in the default production configuration.  The
\* event loop runs every timer and continuation that is due, and the sink
\* answers every create call.  The input records are one of each kind the
\* driver treats differently: with a password, without, invalid, and null.
InitFair ==
  /\ Init
  /\ env \in EnvsDriver
  /\ env.OFFSET = Unset

FairRecords == {UserWithPassword, UserNoPassword, UserBadEmail, Null}

FairLoad ==
  /\ pc = "main"
  /\ \E users \in SeqsUpTo(FairRecords, MaxUsers), phones \in PhoneFiles :
       main(users, phones)
  /\ UNCHANGED <<cleanupVars, rerunVars, pipelineVars>>

NextFair ==
  \/ Boot
  \/ FairLoad
  \/ LoopNext
  \/ cooldown
  \/ CreateSettled
  \/ rateLimitCooldown
  \/ MainReturn
  \/ Summary

FairSpec == InitFair /\ [][NextFair]_vars /\ WF_vars(NextFair)

TypeOK ==
  /\ pc \in {"boot", "failed", "main", "rejected", "loop", "cooldown",
              "awaitCreate", "rateLimitCooldown", "resolved", "done"}
  /\ i \in 0..Len(offsetUsers)
  /\ migrated \in Nat
  /\ alreadyExists \in Nat

\* ------------------------------------------------------------------------
\* Cleanup utility (lines 176-228): a program of its own, with the same
\* credential variable and the opposite startup guard
\* ------------------------------------------------------------------------
MaxRemote == 2

RemoteIds == {"user_1", "user_2", "user_3"}

\* the lists getUserList can answer with: users with distinct ids
UserLists ==
  {l \in SeqsUpTo({Obj([id |-> Str(r)]) : r \in RemoteIds}, MaxRemote) :
     \A a, b \in DOMAIN l : a # b => l[a] # l[b]}

Listed(users) == [ok |-> TRUE, users |-> users]
Deleted == [ok |-> TRUE]

ListAnswers == {Listed(l) : l \in UserLists} \cup {Rejected(ClerkError("401"))}
DeleteErrors == {ClerkError("404"), ClerkError("429"), NetworkError}
DeleteAnswers == {Deleted} \cup {Rejected(e) : e \in DeleteErrors}

\* the guard comparing the first segment of the key
ProductionGuardFirstSegment ==
  At(split(SECRET_KEY.s, "_"), 0) = Val(LiveSegment)

\* the guard of line 191
ProductionGuard == At(split(SECRET_KEY.s, "_"), 1) = Val(LiveSegment)

InitCleanup ==
  /\ env \in EnvsStartup
  /\ InitMigration
  /\ cleanupPc = "boot"
  /\ clerkUsers = <<>>
  /\ cleanupIndex = 0
  /\ usersDeleted = 0
  /\ cleanupLog = <<>>
  /\ cleanupTrace = <<>>
  /\ IdleRerun
  /\ IdlePipeline

\* module-level statements (lines 183-206)
CleanupBoot ==
  /\ cleanupPc = "boot"
  /\ cleanupPc' = IF SecretKeyMissing THEN "failed"
                  ELSE IF ProductionGuard THEN "failed"
                  ELSE "main"
  /\ UNCHANGED <<clerkUsers, cleanupIndex, usersDeleted, cleanupLog,
                 cleanupTrace>>
  /\ UNCHANGED <<migrationVars, rerunVars, pipelineVars>>

\* main starts: the getUserList call is sent (line 209)
getUserList ==
  /\ cleanupPc = "main"
  /\ cleanupPc' = "awaitList"
  /\ cleanupTrace' = Append(cleanupTrace, Ev("getUserList", 0, None))
  /\ UNCHANGED <<clerkUsers, cleanupIndex, usersDeleted, cleanupLog>>
  /\ UNCHANGED <<migrationVars, rerunVars, pipelineVars>>

\* the sink answers the list call (lines 209-211)
ListSettled ==
  /\ cleanupPc = "awaitList"
  /\ \E answer \in ListAnswers :
       IF answer.ok
       THEN /\ clerkUsers' = answer.users
            /\ cleanupPc' = "loop"
            /\ cleanupTrace' = cleanupTrace \o
                 <<Ev("answer", 0, answer),
                   Ev("console", 0, [found |-> Len(answer.users)])>>
       ELSE /\ cleanupPc' = "rejected"
            /\ cleanupTrace' = Append(cleanupTrace, Ev("answer", 0, answer))
            /\ UNCHANGED clerkUsers
  /\ UNCHANGED <<cleanupIndex, usersDeleted, cleanupLog>>
  /\ UNCHANGED <<migrationVars, rerunVars, pipelineVars>>

\* the loop takes the next user and sends its delete call (lines 213-216)
deleteUser ==
  /\ cleanupPc = "loop"
  /\ cleanupIndex < Len(clerkUsers)
  /\ cleanupIndex' = cleanupIndex + 1
  /\ cleanupPc' = "awaitDelete"
  /\ cleanupTrace' = cleanupTrace \o
       <<Ev("console", cleanupIndex',
            [deleting |-> Get(clerkUsers[cleanupIndex'], "id")]),
         Ev("deleteUser", cleanupIndex',
            [id |-> Get(clerkUsers[cleanupIndex'], "id")])>>
  /\ UNCHANGED <<clerkUsers, usersDeleted, cleanupLog>>
  /\ UNCHANGED <<migrationVars, rerunVars, pipelineVars>>

\* a catch block that logs the failure and goes on with the next user
deleteFailedContinue(clerkUser, error) ==
  /\ cleanupLog' = Append(cleanupLog,
       stringify([userId |-> Get(clerkUser, "id"), error |-> error,
                  deleted |-> Bool(FALSE)]))
  /\ cleanupPc' = "loop"
  /\ UNCHANGED usersDeleted

\* the catch block (lines 219-222): log the failure, throw the error again
deleteFailed(clerkUser, error) ==
  /\ cleanupLog' = Append(cleanupLog,
       stringify([userId |-> Get(clerkUser, "id"), error |-> error,
                  deleted |-> Bool(FALSE)]))
  /\ cleanupPc' = "rejected"
  /\ UNCHANGED usersDeleted

\* the sink answers the delete call (lines 216-222)
DeleteSettled ==
  /\ cleanupPc = "awaitDelete"
  /\ \E answer \in DeleteAnswers :
       /\ cleanupTrace' = Append(cleanupTrace,
                                 Ev("answer", cleanupIndex, answer))
       /\ IF answer.ok
          THEN /\ usersDeleted' = usersDeleted + 1
               /\ cleanupLog' = Append(cleanupLog,
                    stringify([userId |-> Get(clerkUsers[cleanupIndex], "id"),
                               deleted |-> Bool(TRUE)]))
               /\ cleanupPc' = "loop"
          ELSE deleteFailed(clerkUsers[cleanupIndex], answer.error)
  /\ UNCHANGED <<clerkUsers, cleanupIndex>>
  /\ UNCHANGED <<migrationVars, rerunVars, pipelineVars>>

\* the loop is over and main resolves; the summary is printed
\* (lines 224-228)
CleanupSummary ==
  /\ cleanupPc = "loop"
  /\ cleanupIndex = Len(clerkUsers)
  /\ cleanupPc' = "done"
  /\ cleanupTrace' = Append(cleanupTrace,
                            Ev("console", 0, [usersDeleted |-> usersDeleted]))
  /\ UNCHANGED <<clerkUsers, cleanupIndex, usersDeleted, cleanupLog>>
  /\ UNCHANGED <<migrationVars, rerunVars, pipelineVars>>

NextCleanup ==
  \/ CleanupBoot
  \/ getUserList
  \/ ListSettled
  \/ deleteUser
  \/ DeleteSettled
  \/ CleanupSummary

SpecCleanup == InitCleanup /\ [][NextCleanup]_vars

\* ------------------------------------------------------------------------
\* Two runs of the migration tool over the same input files, against a sink
\* that keeps the users it created and refuses with 422 an external id it
\* already holds.  The second run is a new process: counters, position and
\* the log file (named after the start time, line 73) start afresh.
\* ------------------------------------------------------------------------
InitRerun ==
  /\ env \in EnvsDriver
  /\ env.OFFSET = Unset
  /\ InitMigration
  /\ IdleCleanup
  /\ sinkUsers = {}
  /\ dataset \in [users : UserFiles, phones : PhoneFiles]
  /\ previousRun = None
  /\ IdlePipeline

\* main of either run reads the same two files
RerunLoad ==
  /\ pc = "main"
  /\ main(dataset.users, dataset.phones)
  /\ UNCHANGED <<cleanupVars, rerunVars, pipelineVars>>

\* what the sink can answer to a create request
StatefulAnswers(request) ==
  IF request.externalId \in sinkUsers
  THEN {Rejected(ClerkError("422")), Rejected(ClerkError("429"))}
  ELSE {Created, Rejected(ClerkError("429")), Rejected(ClerkError("500"))}

\* the sink answers the pending create call and remembers a created user
StatefulSettled ==
  /\ pc = "awaitCreate"
  /\ \E answer \in StatefulAnswers(pending) :
       /\ answer = Rejected(ClerkError("429")) => rateLimited < Max429
       /\ settle(answer)
       /\ sinkUsers' = IF answer.ok THEN sinkUsers \cup {pending.externalId}
                       ELSE sinkUsers
  /\ UNCHANGED <<dataset, previousRun>>
  /\ UNCHANGED <<cleanupVars, pipelineVars>>

\* the tool is started a second time once the first run has ended
Restart ==
  /\ pc = "done"
  /\ previousRun = None
  /\ previousRun' = [migrated |-> migrated, alreadyExists |-> alreadyExists,
                      sinkUsers |-> sinkUsers]
  /\ pc' = "boot"
  /\ bootError' = ""
  /\ parsedUsersWithPhoneNumbers' = <<>>
  /\ offsetUsers' = <<>>
  /\ i' = 0
  /\ migrated' = 0
  /\ alreadyExists' = 0
  /\ auditLog' = <<>>
  /\ pending' = None
  /\ rateLimited' = 0
  /\ console' = <<>>
  /\ trace' = <<>>
  /\ UNCHANGED <<env, sinkUsers, dataset>>
  /\ UNCHANGED <<cleanupVars, pipelineVars>>

NextRerun ==
  \/ Boot
  \/ RerunLoad
  \/ LoopNext
  \/ cooldown
  \/ StatefulSettled
  \/ rateLimitCooldown
  \/ MainReturn
  \/ Summary
  \/ Restart

SpecRerun == InitRerun /\ [][NextRerun]_vars

\* ------------------------------------------------------------------------
\* The record pipeline on its own: the merger (lines 136-149), then for
\* each merged record the validator and the request createUser builds
\* (lines 54-71, 86-91), with no sink behind it.
\* ------------------------------------------------------------------------
MaxAux == 2

UserEmptyPassword ==
  Obj([userId |-> Str("u6"), email |-> Str("a@x.io"), password |-> Str("")])
UserWithOwnPhone ==
  Obj([userId |-> Str("u1"), email |-> Str("b@x.io"), password |-> Str("h2"),
       phoneNumber |-> Arr(<<Str("+1")>>)])

PrimaryRecords ==
  {UserWithPassword, UserNoPassword, UserNoId, UserBadEmail,
   UserEmptyPassword, UserWithOwnPhone}

\* auxiliary records: several for one id, with and without a phone, and
\* one without id
AuxRecords ==
  PhoneRecords \cup
    {Obj([id |-> Str("u1"), phone |-> Str("07700")]),
     Obj([id |-> Str("u1")]),
     Obj([id |-> Str("u2"), phone |-> Str("+44")]),
     Obj([phone |-> Str("+33")])}

\* the configurations that differ in the hasher identifier
EnvsHasher == {e \in EnvsDriver : e.OFFSET = Unset \/ e.PASSWORD_HASHER.set}

InitRecords ==
  /\ env \in EnvsHasher
  /\ InitMigration
  /\ IdleCleanup
  /\ IdleRerun
  /\ mergeInput \in [users : SeqsUpTo(PrimaryRecords, MaxUsers),
                      phones : SeqsUpTo(AuxRecords, MaxAux)]
  /\ mergeOutput = None
  /\ requests = None

\* the value a call has returned
Returned(value) == [returned |-> value]

\* parsedUserData.map(...) (lines 136-149)
Merge ==
  /\ mergeOutput = None
  /\ mergeOutput' = Returned(mergeUsers(mergeInput.users, mergeInput.phones))
  /\ UNCHANGED <<mergeInput, requests>>
  /\ UNCHANGED <<migrationVars, cleanupVars, rerunVars>>

\* what processUserToClerk hands to the sink for one record (lines 86-91):
\* nothing when validation fails, else the request createUser builds
submission(userData) ==
  LET parsedUserData == userSchema(userData)
  IN IF parsedUserData.success
     THEN [sent |-> TRUE, request |-> createUser(parsedUserData.data)]
     ELSE [sent |-> FALSE]

Submit ==
  /\ mergeOutput # None
  /\ requests = None
  /\ requests' = Returned([k \in DOMAIN mergeOutput.returned |->
                             submission(mergeOutput.returned[k])])
  /\ UNCHANGED <<mergeInput, mergeOutput>>
  /\ UNCHANGED <<migrationVars, cleanupVars, rerunVars>>

NextRecords ==
  \/ Merge
  \/ Submit

SpecRecords == InitRecords /\ [][NextRecords]_vars

\* ------------------------------------------------------------------------
\* The migration run against a sink that stays rate limited for longer:
\* up to MaxBusy answers of 429 in a row to one record.
\* ------------------------------------------------------------------------
MaxBusy == 3

RetryRecords == {UserWithPassword, UserBadEmail}

InitRetry ==
  /\ Init
  /\ env \in EnvsDriver
  /\ env.OFFSET = Unset

RetryLoad ==
  /\ pc = "main"
  /\ \E users \in SeqsUpTo(RetryRecords, MaxUsers) : main(users, <<>>)
  /\ UNCHANGED <<cleanupVars, rerunVars, pipelineVars>>

BusySettled ==
  /\ pc = "awaitCreate"
  /\ \E answer \in SinkAnswers :
       /\ answer = Rejected(ClerkError("429")) => rateLimited < MaxBusy
       /\ settle(answer)
  /\ UNCHANGED <<cleanupVars, rerunVars, pipelineVars>>

NextRetry ==
  \/ Boot
  \/ RetryLoad
  \/ LoopNext
  \/ cooldown
  \/ BusySettled
  \/ rateLimitCooldown
  \/ MainReturn
  \/ Summary

SpecRetry == InitRetry /\ [][NextRetry]_vars

\* ------------------------------------------------------------------------
\* Vocabulary of the properties
\* ------------------------------------------------------------------------
\* the status carried by a sink answer (undefined for a success or an error
\* without status)
StatusOf(answer) == IF answer.ok THEN Undef ELSE Get(answer.error, "status")

\* this step is the arrival of the given answer to the pending create call
AnswerNow(answer) ==
  /\ pc = "awaitCreate"
  /\ Len(trace') > Len(trace)
  /\ trace'[Len(trace) + 1] = Ev("answer", i, answer)

\* positions of the history holding an event of the given kind for record k
EventsOf(kind, k) ==
  {p \in DOMAIN trace : trace[p].e = kind /\ trace[p].idx = k}

\* the program is inside main's loop or past it
Running == pc \in {"loop", "cooldown", "awaitCreate", "rateLimitCooldown",
                   "resolved", "done"}

\* the last log entry after this step carries the userId of the record
\* under way, and the entries before it are the old log
OneEntryAppended ==
  /\ Len(auditLog') = Len(auditLog) + 1
  /\ SubSeq(auditLog', 1, Len(auditLog)) = auditLog
  /\ "userId" \in DOMAIN auditLog'[Len(auditLog')]
  /\ auditLog'[Len(auditLog')].userId = Get(offsetUsers[i], "userId")

\* no create call issued by this step follows an answer of the given class
\* to the same record
NoCreateAfter(Class(_)) ==
  \A q \in (Len(trace) + 1)..Len(trace') :
    trace'[q].e = "createUser" =>
      \A p \in 1..(q - 1) :
        ~(trace'[p].e = "answer" /\ trace'[p].idx = trace'[q].idx
            /\ Class(trace'[p].d))

Is422(answer) == StatusOf(answer) = Num("422")
Is429(answer) == StatusOf(answer) = Num("429")
IsOtherError(answer) == ~answer.ok /\ ~Is422(answer) /\ ~Is429(answer)

\* C1: a 422 answer increments alreadyExists by one, leaves migrated alone,
\* appends exactly one log entry with the record's userId, ends the record,
\* and no create call for that record ever follows.
C1_Conflict422 ==
  [][/\ \A a \in SinkAnswers :
          (Is422(a) /\ AnswerNow(a)) =>
            /\ alreadyExists' = alreadyExists + 1
            /\ migrated' = migrated
            /\ OneEntryAppended
            /\ pc' = "loop"
            /\ i' = i
            /\ EventsOf("done", i)' # {}
     /\ NoCreateAfter(Is422)]_vars

C1_Witness ==
  /\ pc = "done"
  /\ alreadyExists = 1
  /\ migrated = 0
  /\ \E p \in DOMAIN trace : trace[p].e = "answer" /\ Is422(trace[p].d)
  /\ Len(auditLog) = 1

\* C2: after a 429 answer the driver sleeps RETRY_DELAY, then submits the
\* same request again; when that attempt succeeds migrated grows by one,
\* and from the first submission on alreadyExists and the log are untouched.
C2_RetryThenSuccess ==
  [][/\ (pc = "cooldown" /\ pc' = "awaitCreate") =>
          /\ migrated' = migrated
          /\ alreadyExists' = alreadyExists
          /\ auditLog' = auditLog
     /\ \A a \in SinkAnswers :
          (Is429(a) /\ AnswerNow(a)) =>
            /\ trace' = trace \o <<Ev("answer", i, a),
                                   Ev("rateLimitCooldown", i, RETRY_DELAY)>>
            /\ pc' = "rateLimitCooldown"
            /\ i' = i
            /\ migrated' = migrated
            /\ alreadyExists' = alreadyExists
            /\ auditLog' = auditLog
     /\ pc = "rateLimitCooldown" =>
          /\ trace[Len(trace) - 2].e = "createUser"
          /\ trace' = Append(trace, Ev("createUser", i, trace[Len(trace) - 2].d))
          /\ pc' = "awaitCreate"
          /\ i' = i
          /\ migrated' = migrated
          /\ alreadyExists' = alreadyExists
          /\ auditLog' = auditLog
     /\ (AnswerNow(Created) /\ trace[Len(trace)].e = "createUser"
           /\ Len(trace) >= 3 /\ trace[Len(trace) - 1].e = "rateLimitCooldown") =>
          /\ migrated' = migrated + 1
          /\ alreadyExists' = alreadyExists
          /\ auditLog' = auditLog
          /\ pc' = "loop"
          /\ EventsOf("appendLog", i)' = {}
          /\ Cardinality(EventsOf("done", i)') = 1]_vars

C2_Witness ==
  /\ pc = "done"
  /\ migrated = 1
  /\ alreadyExists = 0
  /\ auditLog = <<>>
  /\ \E p \in DOMAIN trace :
       /\ p + 3 \in DOMAIN trace
       /\ trace[p].e = "answer" /\ Is429(trace[p].d)
       /\ trace[p + 1].e = "rateLimitCooldown"
       /\ trace[p + 2].e = "createUser"
       /\ trace[p + 3] = Ev("answer", trace[p].idx, Created)

\* a record as the contract describes an invalid one: userId missing or not
\* a string, email missing or not a valid address, or an optional field of
\* the wrong type
InvalidRecord(x) ==
  \/ Get(x, "userId").t # "string"
  \/ Get(x, "email").t # "string"
  \/ Get(x, "email").v \notin ValidEmails
  \/ \E k \in {"firstName", "lastName", "password"} :
       Get(x, k).t \notin {"undefined", "string"}
  \/ Get(x, "phoneNumber").t \notin {"undefined", "array"}

\* the record the driver is working on
CurrentRecord == IF pc = "cooldown" THEN offsetUsers[i + 1] ELSE offsetUsers[i]

\* C3: an invalid record is never the subject of a create call, and no step
\* taken on it changes migrated or alreadyExists.
C3_InvalidNeverSubmitted ==
  [][/\ (pc \in {"cooldown", "awaitCreate", "rateLimitCooldown"}
           /\ InvalidRecord(CurrentRecord)) =>
          /\ migrated' = migrated
          /\ alreadyExists' = alreadyExists
          /\ pending' = None
          /\ pc' = "loop"
     /\ \A q \in DOMAIN trace' :
          trace'[q].e \in {"createUser", "answer"} =>
            ~InvalidRecord(offsetUsers'[trace'[q].idx])]_vars

C3_Witness ==
  /\ pc = "done"
  /\ Len(offsetUsers) = 2
  /\ InvalidRecord(offsetUsers[1])
  /\ ~InvalidRecord(offsetUsers[2])
  /\ EventsOf("done", 1) # {}
  /\ EventsOf("createUser", 2) # {}

\* C4: an error answer whose status is neither 422 nor 429 (or absent)
\* appends exactly one log entry with the record's userId, changes no
\* counter, ends the record, and no create call for that record follows.
C4_OtherErrorSkipped ==
  [][/\ \A a \in SinkAnswers :
          (IsOtherError(a) /\ AnswerNow(a)) =>
            /\ OneEntryAppended
            /\ migrated' = migrated
            /\ alreadyExists' = alreadyExists
            /\ pc' = "loop"
            /\ i' = i
            /\ EventsOf("done", i)' # {}
     /\ NoCreateAfter(IsOtherError)]_vars

C4_Witness ==
  /\ pc = "done"
  /\ migrated = 0
  /\ alreadyExists = 0
  /\ Len(auditLog) = 2
  /\ \E p \in DOMAIN trace : trace[p] = Ev("answer", 1, Rejected(NetworkError))
  /\ \E p \in DOMAIN trace :
       trace[p] = Ev("answer", 2, Rejected(ClerkError("500")))

\* every record of the slice has been settled
AllDone == \A k \in 1..Len(offsetUsers) : EventsOf("done", k) # {}

Count(kind, tr) == Cardinality({p \in DOMAIN tr : tr[p].e = kind})

\* C6: a create call for a record is issued only when every earlier record
\* of the slice is settled, the record itself is not, no later record has
\* been submitted, and every earlier create call has been answered.
C6_Sequential ==
  [][\A q \in (Len(trace) + 1)..Len(trace') :
       trace'[q].e = "createUser" =>
         LET earlier == SubSeq(trace', 1, q - 1)
         IN /\ \A j \in 1..(trace'[q].idx - 1) :
                 \E p \in 1..(q - 1) :
                   earlier[p].e = "done" /\ earlier[p].idx = j
            /\ \A p \in 1..(q - 1) :
                 /\ earlier[p].e = "createUser" => earlier[p].idx <= trace'[q].idx
                 /\ earlier[p].e = "done" => earlier[p].idx < trace'[q].idx
            /\ Count("createUser", earlier) = Count("answer", earlier)]_vars

C6_Witness ==
  /\ EventsOf("createUser", 2) # {}
  /\ EventsOf("rateLimitCooldown", 1) # {}
  /\ pc = "awaitCreate"

\* C7: each record gets exactly one pacing delay of DELAY, as its first
\* event; a first attempt follows the pacing delay directly and a retry
\* follows a RETRY_DELAY cooldown directly.
C7_PacingOncePerRecord ==
  [][/\ \A p \in (Len(trace) + 1)..Len(trace') :
          LET k == trace'[p].idx
              before == {r \in 1..(p - 1) : trace'[r].idx = k}
          IN /\ trace'[p].e = "cooldown" =>
                  /\ trace'[p].d.ms = DELAY
                  /\ before = {}
             /\ (trace'[p].e # "cooldown" /\ k >= 1) =>
                  /\ before # {}
                  /\ trace'[CHOOSE r \in before : \A r2 \in before : r <= r2].e
                       = "cooldown"
             /\ trace'[p].e = "createUser" =>
                  IF \E r \in before : trace'[r].e = "createUser"
                  THEN trace'[p - 1] = Ev("rateLimitCooldown", k, RETRY_DELAY)
                  ELSE trace'[p - 1].e = "cooldown" /\ trace'[p - 1].idx = k
     /\ pc' \in {"resolved", "done"} =>
          \A k \in 1..Len(offsetUsers') :
            Cardinality(EventsOf("cooldown", k)') = 1]_vars

C7_Witness ==
  /\ pc = "done"
  /\ Len(offsetUsers) = 2
  /\ InvalidRecord(offsetUsers[1])
  /\ EventsOf("rateLimitCooldown", 2) # {}
  /\ Cardinality(EventsOf("createUser", 2)) = 2

\* the kinds of event that touch a record
RecordEvents == {"cooldown", "createUser", "answer", "rateLimitCooldown",
                 "appendLog", "done"}

\* C8: with OFFSET = n, 0 <= n <= length of the merged list, the records
\* paced, submitted and logged are those at indices n and above, in order,
\* and nothing more than their number is paced, counted or logged.
C8_OffsetSlice ==
  (Running /\ ~OFFSET.nan /\ OFFSET.n \in 0..Len(parsedUsersWithPhoneNumbers)) =>
    LET n == OFFSET.n
        rest == Len(parsedUsersWithPhoneNumbers) - n
        paced == SelectSeq(trace, LAMBDA ev : ev.e = "cooldown")
    IN /\ Len(paced) <= rest
       /\ pc \in {"resolved", "done"} => Len(paced) = rest
       /\ \A j \in 1..Len(paced) :
            /\ paced[j].idx = j
            /\ paced[j].d.userData = parsedUsersWithPhoneNumbers[n + j]
       /\ \A p \in DOMAIN trace :
            trace[p].e \in RecordEvents => trace[p].idx \in 1..Len(paced)
       /\ \A p \in DOMAIN trace :
            trace[p].e = "createUser" =>
              trace[p].d.externalId =
                Get(parsedUsersWithPhoneNumbers[n + trace[p].idx], "userId")
       /\ migrated + alreadyExists <= rest
       /\ Len(auditLog) <= rest
       /\ migrated + Len(auditLog) <= rest

C8_Witness ==
  /\ pc = "done"
  /\ OFFSET = Finite(1)
  /\ Len(parsedUsersWithPhoneNumbers) = 2
  /\ migrated = 1
  /\ InvalidRecord(parsedUsersWithPhoneNumbers[1])

\* the credential is set and its second underscore-delimited segment is live
ProductionCredential ==
  /\ env.CLERK_SECRET_KEY.set
  /\ At(split(env.CLERK_SECRET_KEY.s, "_"), 1) = Val(LiveSegment)

\* the program has stopped at startup or not yet run, with no file read and
\* no sink call
NotStarted == pc \in {"boot", "failed"} /\ trace = <<>>

\* C9: with a non-production credential and IMPORT_TO_DEV_INSTANCE anything
\* but "true", the tool never gets past startup.
C9_RefusesUnlessTrue ==
  (~ProductionCredential /\ env.IMPORT_TO_DEV_INSTANCE # Val("true"))
    => NotStarted

\* C10 as stated: with a production credential and IMPORT_TO_DEV_INSTANCE
\* unset, the tool never gets past startup.
C10_ProductionUnsetFails ==
  (ProductionCredential /\ env.IMPORT_TO_DEV_INSTANCE = Unset) => NotStarted

\* C10 amended: with a non-production credential and IMPORT_TO_DEV_INSTANCE
\* unset, the tool never gets past startup: no input file is read and no
\* sink call is made.
C10_NonProductionUnsetFails ==
  (~ProductionCredential /\ env.IMPORT_TO_DEV_INSTANCE = Unset) => NotStarted

C10_Witness ==
  /\ pc = "failed"
  /\ bootError = "development instance"
  /\ env.CLERK_SECRET_KEY = Val(KeyTest)
  /\ env.IMPORT_TO_DEV_INSTANCE = Unset
  /\ env.PASSWORD_HASHER = Unset


\* ------------------------------------------------------------------------
\* Cleanup utility
\* ------------------------------------------------------------------------
\* the calls the cleanup run has made to the sink
CleanupCalls(kind) ==
  SelectSeq(cleanupTrace, LAMBDA ev : ev.e = kind)

\* C11: started with a production credential, whatever the other settings,
\* the cleanup utility stops at startup: it never calls the user list, never
\* calls delete and never writes a cleanup log entry.
C11_ProductionCleanupRefused ==
  ProductionCredential =>
    /\ cleanupPc \in {"boot", "failed"}
    /\ cleanupTrace = <<>>
    /\ cleanupLog = <<>>
    /\ usersDeleted = 0

C11_Witness ==
  /\ ProductionCredential
  /\ env.IMPORT_TO_DEV_INSTANCE = Val("true")
  /\ cleanupPc = "failed"

\* position p of the cleanup history is a delete call answered by an error
DeleteErrorAt(p) ==
  /\ cleanupTrace[p].e = "answer"
  /\ cleanupTrace[p].idx > 0
  /\ ~cleanupTrace[p].d.ok

\* C12: users are deleted one at a time in list order, and the first
\* deletion error ends the run: it is logged with deleted false, no later
\* user gets a delete call, and usersDeleted counts the users deleted (each
\* logged with deleted true) before the failing one.
C12_AbortOnFirstDeleteError ==
  LET calls == CleanupCalls("deleteUser")
      answered == Cardinality({p \in DOMAIN cleanupTrace :
                                 /\ cleanupTrace[p].e = "answer"
                                 /\ cleanupTrace[p].idx > 0})
  IN /\ Len(calls) <= Len(clerkUsers)
     /\ \A k \in DOMAIN calls :
          /\ calls[k].idx = k
          /\ calls[k].d.id = Get(clerkUsers[k], "id")
     /\ Len(calls) - answered \in {0, 1}
     /\ \A p \in DOMAIN cleanupTrace :
          DeleteErrorAt(p) =>
            LET k == cleanupTrace[p].idx
            IN /\ p = Len(cleanupTrace)
               /\ Len(calls) = k
               /\ cleanupPc = "rejected"
               /\ Len(cleanupLog) = k
               /\ cleanupLog[k] =
                    [userId |-> Get(clerkUsers[k], "id"),
                     error |-> cleanupTrace[p].d.error,
                     deleted |-> Bool(FALSE)]
               /\ \A j \in 1..(k - 1) :
                    cleanupLog[j] = [userId |-> Get(clerkUsers[j], "id"),
                                     deleted |-> Bool(TRUE)]
               /\ usersDeleted = k - 1

C12_Witness ==
  /\ cleanupPc = "rejected"
  /\ Len(clerkUsers) = 2
  /\ usersDeleted = 1
  /\ Len(cleanupLog) = 2
  /\ cleanupLog[2].deleted = Bool(FALSE)


\* ------------------------------------------------------------------------
\* Second run over an already-migrated dataset
\* ------------------------------------------------------------------------
\* the first run created every record of the dataset
AllCreatedBefore ==
  /\ previousRun # None
  /\ previousRun.migrated = Len(dataset.users)

\* C13: when the first run created every record of the dataset, the second
\* run over the same dataset ends with alreadyExists equal to the number of
\* input records and migrated equal to 0, and while it runs the sink holds
\* exactly the users it held when the first run ended.
C13_SecondRunIdempotent ==
  AllCreatedBefore =>
    /\ sinkUsers = previousRun.sinkUsers
    /\ migrated = 0
    /\ pc = "done" => alreadyExists = Len(dataset.users)

C13_Witness ==
  /\ AllCreatedBefore
  /\ Len(dataset.users) = 2
  /\ pc = "done"
  /\ alreadyExists = 2
  /\ Cardinality(sinkUsers) = 2


\* ------------------------------------------------------------------------
\* Default delays
\* ------------------------------------------------------------------------
\* C14: with DELAY_MS and RETRY_DELAY_MS unset, every pacing wait the driver
\* starts lasts 1000 ms and every rate-limit cooldown lasts 10000 ms.
C14_DefaultDelays ==
  (~env.DELAY_MS.set /\ ~env.RETRY_DELAY_MS.set /\ trace # <<>>) =>
    LET ev == trace[Len(trace)]
    IN /\ ev.e = "cooldown" => ev.d.ms = Finite(1000)
       /\ ev.e = "rateLimitCooldown" => ev.d = Finite(10000)


\* ------------------------------------------------------------------------
\* Startup configuration errors
\* ------------------------------------------------------------------------
\* PASSWORD_HASHER, or its default, is not one of the enumerated identifiers
InvalidHasher ==
  (IF env.PASSWORD_HASHER.set THEN env.PASSWORD_HASHER.s ELSE "bcrypt")
    \notin HashingAlgorithms

\* C15: with CLERK_SECRET_KEY missing or PASSWORD_HASHER outside the
\* enumerated identifiers, the migration tool stops at startup: no input
\* file is read and no record is processed or submitted.  The hasher is
\* checked at startup only: every create call in flight carries an
\* enumerated identifier.
C15_ConfigErrorAbortsAtStartup ==
  /\ (SecretKeyMissing \/ InvalidHasher) => NotStarted
  /\ (pc = "awaitCreate" /\ "passwordHasher" \in DOMAIN pending) =>
       pending.passwordHasher.v \in HashingAlgorithms

C15_Witness ==
  /\ InvalidHasher
  /\ ProductionCredential
  /\ pc = "failed"
  /\ bootError = "ZodError"


\* ------------------------------------------------------------------------
\* Record merger and submission forms
\* ------------------------------------------------------------------------
\* positions of the auxiliary records whose id is the record's userId
Matches(user, phones) ==
  {j \in DOMAIN phones : Get(phones[j], "id") = Get(user, "userId")}

\* out is user with phoneNumber replaced by the one-element list holding
\* the phone as a string
WithPhone(out, user, phone) ==
  /\ out.t = "object"
  /\ DOMAIN out.f = DOMAIN user.f \cup {"phoneNumber"}
  /\ \A key \in DOMAIN user.f \ {"phoneNumber"} : out.f[key] = user.f[key]
  /\ out.f.phoneNumber.t = "array"
  /\ Len(out.f.phoneNumber.items) = 1
  /\ out.f.phoneNumber.items[1].t = "string"
  /\ out.f.phoneNumber.items[1].v = phone.v

\* C16: the merger returns a list of the length and order of the primary
\* list; a record whose first auxiliary match (in auxiliary order) has a
\* truthy phone gets phoneNumber set to the one-element list of that phone
\* as a string and is otherwise equal to its input; every other record is
\* returned unchanged.
C16_MergerContract ==
  mergeOutput # None =>
    /\ Len(mergeOutput.returned) = Len(mergeInput.users)
    /\ \A k \in DOMAIN mergeInput.users :
         LET user == mergeInput.users[k]
             out == mergeOutput.returned[k]
             hits == Matches(user, mergeInput.phones)
         IN IF hits = {}
            THEN out = user
            ELSE LET first == CHOOSE j \in hits : \A h \in hits : j <= h
                     phone == Get(mergeInput.phones[first], "phone")
                 IN IF Truthy(phone)
                    THEN WithPhone(out, user, phone)
                    ELSE out = user

C16_Witness ==
  /\ mergeOutput # None
  /\ Len(mergeInput.users) = 2
  /\ Len(mergeInput.phones) = 2
  /\ mergeInput.users[2] = UserWithPassword
  /\ Cardinality(Matches(UserWithPassword, mergeInput.phones)) = 2
  /\ mergeInput.phones[1] # mergeInput.phones[2]
  /\ Get(mergeInput.phones[1], "phone") = Num("5551234")
  /\ Get(mergeOutput.returned[2], "phoneNumber") = Arr(<<Str("5551234")>>)


\* the hasher identifier the tool was configured with
ConfiguredHasher ==
  IF env.PASSWORD_HASHER.set THEN env.PASSWORD_HASHER.s ELSE "bcrypt"

\* the request is the pre-hashed form: the digest with the configured
\* hasher, and no waiver
DigestForm(request, password) ==
  /\ "passwordDigest" \in DOMAIN request
  /\ request.passwordDigest = password
  /\ "passwordHasher" \in DOMAIN request
  /\ request.passwordHasher = Str(ConfiguredHasher)
  /\ "skipPasswordRequirement" \notin DOMAIN request

\* the request is the waiver form: the waiver, and no digest or hasher
WaiverForm(request) ==
  /\ "skipPasswordRequirement" \in DOMAIN request
  /\ request.skipPasswordRequirement = Bool(TRUE)
  /\ "passwordDigest" \notin DOMAIN request
  /\ "passwordHasher" \notin DOMAIN request

\* C19: every validated record is submitted in one of two forms: a record
\* carrying a password goes out in the digest form with that password, a
\* record with no password goes out in the waiver form.
C19_TwoSubmissionForms ==
  requests # None =>
    \A k \in DOMAIN requests.returned :
      LET record == mergeOutput.returned[k]
          sub == requests.returned[k]
      IN sub.sent =>
           IF "password" \in DOMAIN record.f
           THEN DigestForm(sub.request, record.f.password)
           ELSE WaiverForm(sub.request)

\* C20: a request in the waiver form has no phone number, even when the
\* merger attached one to the record; a request in the digest form carries
\* the phone number of the merged record.
C20_PhoneOnlyWithDigest ==
  requests # None =>
    \A k \in DOMAIN requests.returned :
      LET record == mergeOutput.returned[k]
          sub == requests.returned[k]
      IN sub.sent =>
           IF "skipPasswordRequirement" \in DOMAIN sub.request
           THEN "phoneNumber" \notin DOMAIN sub.request
           ELSE /\ "passwordDigest" \in DOMAIN sub.request
                /\ "phoneNumber" \in DOMAIN sub.request
                /\ sub.request.phoneNumber = Get(record, "phoneNumber")

C20_Witness ==
  /\ requests # None
  /\ Len(mergeInput.users) = 2
  /\ mergeInput.users[1] = UserNoPassword
  /\ Get(mergeOutput.returned[1], "phoneNumber") = Arr(<<Str("+44")>>)
  /\ requests.returned[1].sent
  /\ WaiverForm(requests.returned[1].request)
  /\ mergeInput.users[2] = UserWithPassword
  /\ Get(mergeOutput.returned[2], "phoneNumber") = Arr(<<Str("5551234")>>)
  /\ requests.returned[2].sent
  /\ requests.returned[2].request.phoneNumber = Arr(<<Str("5551234")>>)


\* ------------------------------------------------------------------------
\* Accounting
\* ------------------------------------------------------------------------
\* record k of the slice has reached Done: the loop is past it
Done(k) ==
  \/ k < i
  \/ k = i /\ pc \in {"loop", "cooldown", "resolved", "done"}

\* the create call of record k succeeded
Succeeded(k) ==
  \E p \in DOMAIN trace :
    trace[p].e = "answer" /\ trace[p].idx = k /\ trace[p].d.ok

\* C17: migrated is the number of records whose create call succeeded,
\* alreadyExists the number of records that ended with a 422, and the audit
\* log holds one entry for each record Done without success and none for a
\* record that succeeded or is not Done yet; so migrated plus the number of
\* audit entries is the number of records Done.
C17_Accounting ==
  LET records == 1..Len(offsetUsers)
      done == {k \in records : Done(k)}
      answers == {p \in DOMAIN trace : trace[p].e = "answer"}
      successes == {p \in answers : trace[p].d.ok}
      entries == {p \in DOMAIN trace : trace[p].e = "appendLog"}
  IN /\ migrated = Cardinality({k \in records :
                                  \E p \in successes : trace[p].idx = k})
     /\ alreadyExists =
          Cardinality({p \in answers : StatusOf(trace[p].d) = Num("422")})
     /\ Len(auditLog) = Cardinality(entries)
     /\ \A k \in records :
          Cardinality({p \in entries : trace[p].idx = k})
            = IF Done(k) /\ ~(\E p \in successes : trace[p].idx = k)
              THEN 1 ELSE 0
     /\ migrated + Len(auditLog) = Cardinality(done)

C17_Witness ==
  /\ pc = "done"
  /\ Len(offsetUsers) = 2
  /\ migrated = 1
  /\ alreadyExists = 1
  /\ rateLimited > 0
  /\ Len(auditLog) = 1


\* ------------------------------------------------------------------------
\* Retry on 429
\* ------------------------------------------------------------------------
\* positions in the history of the create calls made for record k
Attempts(k) ==
  {p \in DOMAIN trace : trace[p].e = "createUser" /\ trace[p].idx = k}

\* positions of the 429 answers record k received
Busy(k) ==
  {p \in DOMAIN trace :
     /\ trace[p].e = "answer"
     /\ trace[p].idx = k
     /\ StatusOf(trace[p].d) = Num("429")}

\* positions of the answers other than 429 record k received
Settling(k) ==
  {p \in DOMAIN trace :
     /\ trace[p].e = "answer"
     /\ trace[p].idx = k
     /\ StatusOf(trace[p].d) # Num("429")}

\* the outcome an answer other than 429 settles a record with
OutcomeOf(answer) ==
  IF answer.ok THEN "migrated"
  ELSE IF StatusOf(answer) = Num("422") THEN "alreadyExists"
  ELSE "failed"

\* the outcomes of the records that are Done, in the order they ended
Outcomes(outcome) ==
  Cardinality({p \in DOMAIN trace :
                 trace[p].e = "done" /\ trace[p].d.outcome = outcome})

\* C18: a record answered 429 n times in a row is attempted n + 1 times:
\* every 429 is followed by one RETRY_DELAY cooldown and then by the same
\* create call again, and the record is settled by the first answer that is
\* not 429.  Until then it is not Done, nothing is logged for it, the
\* counters stand where the earlier records left them, and no later record
\* is submitted.
C18_UnboundedRetry ==
  \A k \in 1..Len(offsetUsers) :
    LET n == Cardinality(Busy(k))
    IN n > 0 =>
         /\ \A p \in Busy(k) :
              /\ trace[p - 1].e = "createUser" /\ trace[p - 1].idx = k
              /\ p < Len(trace)
              /\ trace[p + 1] = Ev("rateLimitCooldown", k, RETRY_DELAY)
              /\ p + 2 <= Len(trace) =>
                   trace[p + 2] = Ev("createUser", k, trace[p - 1].d)
         /\ Cardinality({p \in DOMAIN trace :
                           trace[p].e = "rateLimitCooldown" /\ trace[p].idx = k})
              = n
         /\ IF Done(k)
            THEN /\ Cardinality(Attempts(k)) = n + 1
                 /\ Cardinality(Settling(k)) = 1
                 /\ \A q \in Settling(k) :
                      /\ \A p \in Busy(k) : p < q
                      /\ \E d \in DOMAIN trace :
                           /\ d > q
                           /\ trace[d] = Ev("done", k,
                                            [outcome |-> OutcomeOf(trace[q].d)])
            ELSE /\ k = i
                 /\ Cardinality(Attempts(k)) =
                      IF pc = "rateLimitCooldown" THEN n ELSE n + 1
                 /\ Settling(k) = {}
                 /\ \A p \in DOMAIN trace :
                      /\ trace[p].idx <= k
                      /\ trace[p].idx = k => trace[p].e \notin {"done", "appendLog"}
                 /\ migrated = Outcomes("migrated")
                 /\ alreadyExists = Outcomes("alreadyExists")
                 /\ Len(auditLog) =
                      Outcomes("alreadyExists") + Outcomes("failed")

C18_Witness ==
  /\ pc = "done"
  /\ Len(offsetUsers) = 2
  /\ Cardinality(Busy(1)) = 3
  /\ Succeeded(1)
  /\ Cardinality(Attempts(1)) = 4
  /\ Cardinality(Attempts(2)) = 1


====
